---- MODULE Spec2Model ----
(***************************************************************************)
(* Two marketplace applications over a local SQLite store.                 *)
(*   task#11/app.py  SkillSwap: gigs, bids, tasks, portfolio, user stats   *)
(*   task#10/app.py  item sharing: items, transactions                     *)
(* Every database function opens a connection, runs its statements inside  *)
(* the implicit sqlite3 transaction and commits once at the end; a return  *)
(* or exception before the commit closes the connection and discards the   *)
(* statements.  An action below is one call of one function; the variables *)
(* are the committed tables.  What a call returns is a function of the     *)
(* tables it finds and of its arguments: the operator <function>_ret.      *)
(***************************************************************************)
EXTENDS Integers, Sequences, FiniteSets, TLC

\* ---------------------------------------------------------------- bounds
NumUsers == 3
MaxGigs == 1
MaxBids == 2
MaxTasks == 2
MaxPortfolio == 2
MaxItems == 2
MaxTransactions == 2
PairSize == 2
MaxListings == 3
MaxPool == 7
MaxReviews == 2

Users == 1..NumUsers
GigIds == 1..MaxGigs
BidIds == 1..MaxBids
TaskIds == 1..MaxTasks
ItemIds == 1..MaxItems
TransactionIds == 1..MaxTransactions

\* Python None / SQL NULL is the empty tuple, a value v is <<v>>.
None == << >>
Some(v) == <<v>>

\* inputs of the calls
BudgetInputs == {<<"fixed", 0>>, <<"fixed", 2>>}
BidAmounts == {0, 3, 4}
RatingInputs == {None, Some(0), Some(4), Some(6)}
ReviewInputs == {Some("good")}
ItemStatuses == {"available", "pending", "rented"}
TransactionStatuses == {"pending", "accepted", "completed", "cancelled"}
\* (trans_type, matched_item_id) of create_transaction
TransactionInputs == {<<"rental", None>>, <<"barter", None>>}
                         \cup {<<"barter", Some(m)>> : m \in ItemIds}

VARIABLES gigs, bids, tasks, portfolio, users,     \* task#11: skillswap.db
          items, item_seq, transactions,           \* task#10: sharestuff.db
          now,                                     \* task#10: latest CURRENT_TIMESTAMP
          matches,                                 \* task#10: what find_matches returned,
                                                   \* None after any other call
          reviews, item_users                      \* task#10: reviews, users of sharestuff.db

gigVars == <<gigs, bids, tasks, portfolio, users>>
reviewVars == <<reviews, item_users>>
itemVars == <<items, item_seq, transactions, now, matches, reviewVars>>
vars == <<gigs, bids, tasks, portfolio, users, items, item_seq, transactions, now,
          matches, reviews, item_users>>

\* ------------------------------------------------------------- arithmetic
RECURSIVE Gcd(_, _)
Gcd(a, b) == IF b = 0 THEN a ELSE Gcd(b, a % b)

\* a REAL column holding a non-negative rational, kept in lowest terms
Frac(n, d) == LET g == Gcd(n, d) IN [num |-> n \div g, den |-> d \div g]

\* ------------------------------------------------------------------ rows
\* the (success, message) pair a function of task#11 returns; the functions of
\* task#10 return the bare flag
Result(ok, msg) == [ok |-> ok, msg |-> msg]

NewUser == [rating |-> Frac(0, 1), completed_tasks |-> 0, total_earnings |-> 0]

\* a user row of sharestuff.db: rating REAL DEFAULT 0, total_ratings INTEGER DEFAULT 0
NewItemUser == [rating |-> Frac(0, 1), total_ratings |-> 0]

\* both databases as init_db() creates them: every table empty (the user rows
\* are the registered accounts, with the column defaults)
EmptyStores ==
    /\ gigs = << >>
    /\ bids = << >>
    /\ tasks = << >>
    /\ portfolio = << >>
    /\ users = [u \in Users |-> NewUser]
    /\ items = << >>
    /\ item_seq = 0
    /\ transactions = << >>
    /\ now = 0
    /\ matches = None
    /\ reviews = << >>
    /\ item_users = [u \in Users |-> NewItemUser]

\* =========================================================== task#11/app.py
GigInit == EmptyStores

\* ------------------------------------------------------------ create_gig
\* (title, description, category, budget_type and urgency are filled in)
create_gig_ret(budget_type, budget_amount) ==
    IF budget_type = "fixed" /\ budget_amount <= 0
    THEN Result(FALSE, "Please enter a valid budget amount")
    ELSE Result(TRUE, "Gig created successfully!")

create_gig(user_id, budget_type, budget_amount) ==
    IF create_gig_ret(budget_type, budget_amount).ok
    THEN /\ Len(gigs) < MaxGigs
         /\ gigs' = Append(gigs, [user_id |-> user_id, budget_type |-> budget_type,
                                  budget_amount |-> budget_amount, status |-> "open"])
         /\ UNCHANGED <<bids, tasks, portfolio, users, itemVars>>
    ELSE UNCHANGED vars

\* ------------------------------------------------------------- place_bid
\* SELECT id FROM bids WHERE gig_id = ? AND bidder_id = ?
HasBid_OnlyPending(gig_id, bidder_id) ==
    \E i \in DOMAIN bids : /\ bids[i].gig_id = gig_id
                           /\ bids[i].bidder_id = bidder_id
                           /\ bids[i].status = "pending"

HasBid(gig_id, bidder_id) ==
    \E i \in DOMAIN bids : bids[i].gig_id = gig_id /\ bids[i].bidder_id = bidder_id

ExceedsBudget_AtLeast(gig_id, amount) ==
    /\ gig_id \in DOMAIN gigs
    /\ gigs[gig_id].budget_type = "fixed"
    /\ 2 * amount >= 3 * gigs[gig_id].budget_amount

\* amount > budget_amount * 1.5 on a fixed-budget gig that exists
ExceedsBudget(gig_id, amount) ==
    /\ gig_id \in DOMAIN gigs
    /\ gigs[gig_id].budget_type = "fixed"
    /\ 2 * amount > 3 * gigs[gig_id].budget_amount

place_bid_ret(gig_id, bidder_id, amount) ==
    IF amount <= 0
    THEN Result(FALSE, "Please enter a valid bid amount")
    ELSE IF HasBid(gig_id, bidder_id)
    THEN Result(FALSE, "You have already placed a bid on this gig")
    ELSE IF ExceedsBudget(gig_id, amount)
    THEN Result(FALSE, "Your bid exceeds the maximum allowed amount (150% of budget)")
    ELSE Result(TRUE, "Bid placed successfully!")

place_bid(gig_id, bidder_id, amount) ==
    IF place_bid_ret(gig_id, bidder_id, amount).ok
    THEN /\ Len(bids) < MaxBids
         /\ bids' = Append(bids, [gig_id |-> gig_id, bidder_id |-> bidder_id,
                                  amount |-> amount, status |-> "pending"])
         /\ UNCHANGED <<gigs, tasks, portfolio, users, itemVars>>
    ELSE UNCHANGED vars

\* ------------------------------------------------------------ accept_bid
\* INSERT INTO tasks (...) VALUES (?, ?, ?, ?, ?, 'in_progress')
NewTask(gig_id, bid_id, client_id, bidder_id, amount) ==
    [gig_id |-> gig_id, bid_id |-> bid_id, client_id |-> client_id,
     freelancer_id |-> bidder_id, amount |-> amount, status |-> "in_progress",
     completed_at |-> FALSE, client_rating |-> None, client_review |-> None]

\* UPDATE bids SET status = "accepted" WHERE id = ?
MarkAccepted(bs, bid_id) == [bs EXCEPT ![bid_id].status = "accepted"]

\* UPDATE bids SET status = "rejected" WHERE gig_id = ? AND id != ?
RejectOthers_OnlyPending(bs, gig_id, bid_id) ==
    [i \in DOMAIN bs |->
        IF bs[i].gig_id = gig_id /\ i # bid_id /\ bs[i].status = "pending"
        THEN [bs[i] EXCEPT !.status = "rejected"] ELSE bs[i]]

RejectOthers(bs, gig_id, bid_id) ==
    [i \in DOMAIN bs |->
        IF bs[i].gig_id = gig_id /\ i # bid_id
        THEN [bs[i] EXCEPT !.status = "rejected"] ELSE bs[i]]

\* UPDATE gigs SET status = ? WHERE id = ?
SetGigStatus(gs, gig_id, status) ==
    [i \in DOMAIN gs |-> IF i = gig_id THEN [gs[i] EXCEPT !.status = status] ELSE gs[i]]

\* db_error: some statement of the call raises sqlite3.Error
accept_bid_ret(bid_id, db_error) ==
    IF bid_id \notin DOMAIN bids
    THEN Result(FALSE, "Bid not found")
    ELSE IF bids[bid_id].gig_id \notin DOMAIN gigs
    THEN Result(FALSE, "Gig not found")
    ELSE IF db_error
    THEN Result(FALSE, "Database error")
    ELSE Result(TRUE, "Bid accepted! Task has started.")

accept_bid(bid_id) ==
    IF accept_bid_ret(bid_id, FALSE).ok
    THEN LET bid == bids[bid_id] IN
         /\ Len(tasks) < MaxTasks
         /\ tasks' = Append(tasks, NewTask(bid.gig_id, bid_id, gigs[bid.gig_id].user_id,
                                           bid.bidder_id, bid.amount))
         /\ bids' = RejectOthers(MarkAccepted(bids, bid_id), bid.gig_id, bid_id)
         /\ gigs' = SetGigStatus(gigs, bid.gig_id, "in_progress")
         /\ UNCHANGED <<portfolio, users, itemVars>>
    ELSE UNCHANGED vars

\* a sqlite3.Error raised by a statement of accept_bid: the function returns
\* from the except branch, the connection is closed without a commit and the
\* statements already executed are rolled back
accept_bid_error(bid_id) ==
    /\ ~accept_bid_ret(bid_id, TRUE).ok
    /\ UNCHANGED vars

\* --------------------------------------------------------- complete_task
\* the UPDATE tasks statement chosen by the caller's role
TaskUpdate(ts, task_id, user_id, rating, review) ==
    LET task == ts[task_id] IN
    IF user_id = task.client_id
    THEN IF rating # None
         THEN [ts EXCEPT ![task_id].client_rating = rating,
                         ![task_id].client_review = review]
         ELSE [ts EXCEPT ![task_id].status = "completed",
                         ![task_id].completed_at = TRUE]
    ELSE IF user_id = task.freelancer_id
    THEN [ts EXCEPT ![task_id].status = "pending_review"]
    ELSE ts

\* if status == 'pending_review' and user_id == client_id
\* (status is the value read by the SELECT at the start of the call)
StatsFire_AnyStatus(status, user_id, client_id) == user_id = client_id

StatsFire(status, user_id, client_id) ==
    status = "pending_review" /\ user_id = client_id

\* rating or 5
RatingOr5(rating) == IF rating = None \/ rating = Some(0) THEN 5 ELSE rating[1]

UpdateStats_NewCount(us, freelancer_id, amount, r) ==
    LET u == us[freelancer_id] IN
    [us EXCEPT ![freelancer_id] =
        [completed_tasks |-> u.completed_tasks + 1,
         total_earnings |-> u.total_earnings + amount,
         rating |-> Frac(u.rating.num * (u.completed_tasks + 1) + r * u.rating.den,
                         u.rating.den * (u.completed_tasks + 2))]]

\* UPDATE users SET completed_tasks = completed_tasks + 1,
\*   total_earnings = total_earnings + ?,
\*   rating = (rating * completed_tasks + ?) / (completed_tasks + 1) WHERE id = ?
\* every right-hand side reads the row as it was before the statement
UpdateStats(us, freelancer_id, amount, r) ==
    LET u == us[freelancer_id] IN
    [us EXCEPT ![freelancer_id] =
        [completed_tasks |-> u.completed_tasks + 1,
         total_earnings |-> u.total_earnings + amount,
         rating |-> Frac(u.rating.num * u.completed_tasks + r * u.rating.den,
                         u.rating.den * (u.completed_tasks + 1))]]

PortfolioRows_OncePerTask(ts, gs, task_id, freelancer_id) ==
    IF ts[task_id].gig_id \in DOMAIN gs
       /\ ~\E p \in DOMAIN portfolio : portfolio[p].task_id = task_id
    THEN << [user_id |-> freelancer_id, task_id |-> task_id,
             completion_date |-> ts[task_id].completed_at,
             client_feedback |-> ts[task_id].client_review,
             rating |-> ts[task_id].client_rating] >>
    ELSE << >>

\* INSERT INTO portfolio (...) SELECT ?, t.id, ..., DATE(t.completed_at),
\*   t.client_review, t.client_rating FROM tasks t JOIN gigs g ON t.gig_id = g.id
\*   WHERE t.id = ?       (reads the task row as already updated by this call)
PortfolioRows(ts, gs, task_id, freelancer_id) ==
    IF ts[task_id].gig_id \in DOMAIN gs
    THEN << [user_id |-> freelancer_id, task_id |-> task_id,
             completion_date |-> ts[task_id].completed_at,
             client_feedback |-> ts[task_id].client_review,
             rating |-> ts[task_id].client_rating] >>
    ELSE << >>

complete_task_ret_NoRange(task_id, user_id, rating) ==
    IF task_id \notin DOMAIN tasks
    THEN Result(FALSE, "Task not found")
    ELSE IF user_id \notin {tasks[task_id].client_id, tasks[task_id].freelancer_id}
    THEN Result(FALSE, "Unauthorized access")
    ELSE Result(TRUE, "Task updated successfully!")

complete_task_ret(task_id, user_id, rating) ==
    IF task_id \notin DOMAIN tasks
    THEN Result(FALSE, "Task not found")
    ELSE IF user_id \notin {tasks[task_id].client_id, tasks[task_id].freelancer_id}
    THEN Result(FALSE, "Unauthorized access")
    ELSE IF user_id = tasks[task_id].client_id /\ rating # None
            /\ (rating[1] < 1 \/ rating[1] > 5)
    THEN Result(FALSE, "Rating must be between 1 and 5")
    ELSE Result(TRUE, "Task updated successfully!")

complete_task(task_id, user_id, rating, review) ==
    IF complete_task_ret(task_id, user_id, rating).ok
    THEN LET task == tasks[task_id]
             ts1 == TaskUpdate(tasks, task_id, user_id, rating, review)
             fire == StatsFire(task.status, user_id, task.client_id)
         IN /\ fire => Len(portfolio) < MaxPortfolio
            /\ tasks' = ts1
            /\ users' = IF fire
                        THEN UpdateStats(users, task.freelancer_id, task.amount,
                                         RatingOr5(rating))
                        ELSE users
            /\ portfolio' = IF fire
                            THEN portfolio \o PortfolioRows(ts1, gigs, task_id,
                                                            task.freelancer_id)
                            ELSE portfolio
            /\ gigs' = IF fire
                       THEN SetGigStatus(gigs, ts1[task_id].gig_id, "completed")
                       ELSE gigs
            /\ UNCHANGED <<bids, itemVars>>
    ELSE UNCHANGED vars

\* ------------------------------------------------- the gig store as a whole
CreateGig == \E u \in Users, b \in BudgetInputs : create_gig(u, b[1], b[2])
PlaceBid == \E g \in GigIds, u \in Users, a \in BidAmounts : place_bid(g, u, a)
AcceptBid == \E b \in BidIds : accept_bid(b)
AcceptBidError == \E b \in BidIds : accept_bid_error(b)
CompleteTask == \E t \in TaskIds, u \in Users, r \in RatingInputs, rv \in ReviewInputs :
                    complete_task(t, u, r, rv)

GigNext == CreateGig \/ PlaceBid \/ AcceptBid \/ AcceptBidError \/ CompleteTask

GigSpec == GigInit /\ [][GigNext]_vars

\* ------------------------------------------- posting and bidding on their own
\* post_gig offers both budget types; the bid form any amount
AllBudgetInputs == BudgetInputs \cup {<<"hourly", 2>>}
AllBidAmounts == BidAmounts \cup {-1, 1, 9}

PostGig == \E u \in Users, b \in AllBudgetInputs : create_gig(u, b[1], b[2])
SubmitBid == \E g \in GigIds, u \in Users, a \in AllBidAmounts : place_bid(g, u, a)

BidNext == PostGig \/ SubmitBid \/ AcceptBid

BidSpec == GigInit /\ [][BidNext]_vars

\* =========================================================== task#10/app.py
ItemInit == EmptyStores

\* ---------------------------------------------------------------- add_item
\* a TEXT value is Some(<<characters>>), so that "" and NULL stay apart
Text(chars) == Some(chars)

\* the columns of a listing that add_item receives and find_matches reads
\* (title, description, condition and image are stored and only copied)
Listing(category, price, location, tags, available_for) ==
    [category |-> category, price |-> price, location |-> location, tags |-> tags,
     available_for |-> available_for]

DefaultListing == Listing("Tools", 50, Text(<<"a">>), None, "both")

\* INSERT INTO items (...): status and created_at take the column defaults
\* 'available' and CURRENT_TIMESTAMP; ts is the clock at the call, the second of
\* the previous insert or a later one
add_item(user_id, listing, ts) ==
    /\ item_seq' = item_seq + 1
    /\ now' = ts
    /\ items' = [i \in DOMAIN items \cup {item_seq + 1} |->
                    IF i = item_seq + 1
                    THEN [user_id |-> user_id, status |-> "available",
                          category |-> listing.category, price |-> listing.price,
                          location |-> listing.location, tags |-> listing.tags,
                          available_for |-> listing.available_for, created_at |-> ts]
                    ELSE items[i]]
    /\ matches' = None
    /\ UNCHANGED <<transactions, reviewVars, gigVars>>

\* ------------------------------------------------------------- delete_item
\* DELETE FROM items WHERE id = ?
delete_item(item_id) ==
    /\ items' = [i \in DOMAIN items \ {item_id} |-> items[i]]
    /\ matches' = None
    /\ UNCHANGED <<item_seq, transactions, now, reviewVars, gigVars>>

\* ------------------------------------------------------------- update_item
\* UPDATE items SET status = ? WHERE id = ?   (edit_item passes the status)
SetItemStatus(its, item_id, status) ==
    [i \in DOMAIN its |-> IF i = item_id THEN [its[i] EXCEPT !.status = status] ELSE its[i]]

update_item(item_id, status) ==
    /\ items' = SetItemStatus(items, item_id, status)
    /\ matches' = None
    /\ UNCHANGED <<item_seq, transactions, now, reviewVars, gigVars>>

\* ------------------------------------------------------ create_transaction
\* (requested_by and the dates are stored and read by no statement modelled here)
\* the flag returned: True after the commit; no argument is looked at before
\* the INSERT
create_transaction_ret(item_id, trans_type, matched_item_id) == TRUE

create_transaction(item_id, trans_type, matched_item_id) ==
    /\ Len(transactions) < MaxTransactions
    /\ transactions' = Append(transactions,
           [item_id |-> item_id, type |-> trans_type,
            matched_item_id |-> matched_item_id, status |-> "pending"])
    /\ matches' = None
    /\ UNCHANGED <<items, item_seq, now, reviewVars, gigVars>>

\* ----------------------------------------------- update_transaction_status
\* UPDATE transactions SET status = ? WHERE id = ?
SetTransactionStatus(txs, transaction_id, status) ==
    [i \in DOMAIN txs |-> IF i = transaction_id THEN [txs[i] EXCEPT !.status = status]
                                                ELSE txs[i]]

\* if status in ['completed', 'cancelled']: SELECT item_id FROM transactions
\* WHERE id = ?; if result: UPDATE items SET status = "available" WHERE id = ?
FreeItem_OnlyRented(its, txs, transaction_id, status) ==
    IF status \in {"completed", "cancelled"} /\ transaction_id \in DOMAIN txs
       /\ txs[transaction_id].item_id \in DOMAIN its
       /\ its[txs[transaction_id].item_id].status = "rented"
    THEN SetItemStatus(its, txs[transaction_id].item_id, "available")
    ELSE its

FreeItem(its, txs, transaction_id, status) ==
    IF status \in {"completed", "cancelled"} /\ transaction_id \in DOMAIN txs
    THEN SetItemStatus(its, txs[transaction_id].item_id, "available")
    ELSE its

\* the flag returned: True after the commit, whatever the statements matched
update_transaction_status_ret(transaction_id, status) == TRUE

update_transaction_status_Reserving(transaction_id, status) ==
    /\ transactions' = SetTransactionStatus(transactions, transaction_id, status)
    /\ items' = IF status = "accepted" /\ transaction_id \in DOMAIN transactions
                THEN SetItemStatus(items, transactions[transaction_id].item_id, "rented")
                ELSE FreeItem(items, transactions', transaction_id, status)
    /\ matches' = None
    /\ UNCHANGED <<item_seq, now, reviewVars, gigVars>>

update_transaction_status(transaction_id, status) ==
    /\ transactions' = SetTransactionStatus(transactions, transaction_id, status)
    /\ items' = FreeItem(items, transactions', transaction_id, status)
    /\ matches' = None
    /\ UNCHANGED <<item_seq, now, reviewVars, gigVars>>

\* -------------------------------------------------------------- add_review
ReviewRatings == {2, 5}
ReviewComments == {"", "fine"}

\* SELECT id FROM reviews WHERE user_id = ? AND reviewer_id = ? AND transaction_id = ?
Existing(user_id, reviewer_id, transaction_id) ==
    {i \in DOMAIN reviews : /\ reviews[i].user_id = user_id
                            /\ reviews[i].reviewer_id = reviewer_id
                            /\ reviews[i].transaction_id = transaction_id}

Upsert_AlwaysInsert(existing, user_id, reviewer_id, transaction_id, rating, comment) ==
    Append(reviews, [user_id |-> user_id, reviewer_id |-> reviewer_id,
                     transaction_id |-> transaction_id, rating |-> rating,
                     comment |-> comment])

\* existing = c.fetchone(): UPDATE reviews SET rating = ?, comment = ? WHERE id = ?
\* on the row found, INSERT INTO reviews when there is none
Upsert(existing, user_id, reviewer_id, transaction_id, rating, comment) ==
    IF existing \in DOMAIN reviews
    THEN [reviews EXCEPT ![existing].rating = rating, ![existing].comment = comment]
    ELSE Append(reviews, [user_id |-> user_id, reviewer_id |-> reviewer_id,
                          transaction_id |-> transaction_id, rating |-> rating,
                          comment |-> comment])

RECURSIVE SumRatings(_, _)
SumRatings(rs, user_id) ==
    IF rs = << >> THEN 0
    ELSE (IF Head(rs).user_id = user_id THEN Head(rs).rating ELSE 0)
             + SumRatings(Tail(rs), user_id)

\* SELECT AVG(rating), COUNT(*) FROM reviews WHERE user_id = ?
CountRatings(rs, user_id) == Cardinality({i \in DOMAIN rs : rs[i].user_id = user_id})

\* result[0] or 0.0: AVG over no rows is NULL and becomes 0.0
AvgRating(rs, user_id) ==
    IF CountRatings(rs, user_id) = 0 THEN Frac(0, 1)
    ELSE Frac(SumRatings(rs, user_id), CountRatings(rs, user_id))

\* UPDATE users SET rating = ?, total_ratings = ? WHERE id = ?
SetRating(us, user_id, avg_rating, count) ==
    [u \in DOMAIN us |->
        IF u = user_id THEN [rating |-> avg_rating, total_ratings |-> count] ELSE us[u]]

\* fetchone() delivers one of the rows the SELECT matches, or None
add_review(user_id, reviewer_id, transaction_id, rating, comment) ==
    LET found == Existing(user_id, reviewer_id, transaction_id) IN
    /\ found = {} => Len(reviews) < MaxReviews
    /\ \E existing \in (IF found = {} THEN {0} ELSE found) :
          /\ reviews' = Upsert(existing, user_id, reviewer_id, transaction_id, rating,
                               comment)
          /\ item_users' = SetRating(item_users, user_id, AvgRating(reviews', user_id),
                                     CountRatings(reviews', user_id))
    /\ matches' = None
    /\ UNCHANGED <<items, item_seq, transactions, now, gigVars>>

\* ------------------------------------------------ the item store as a whole
AddItem == \E u \in Users : item_seq < MaxItems /\ add_item(u, DefaultListing, now + 1)
DeleteItem == \E i \in ItemIds : delete_item(i)
UpdateItem == \E i \in ItemIds, s \in ItemStatuses : update_item(i, s)
CreateTransaction == \E i \in ItemIds, tm \in TransactionInputs :
                         create_transaction(i, tm[1], tm[2])
UpdateTransactionStatus == \E t \in TransactionIds, s \in TransactionStatuses :
                               update_transaction_status(t, s)

ItemNext == AddItem \/ DeleteItem \/ UpdateItem \/ CreateTransaction
            \/ UpdateTransactionStatus

ItemSpec == ItemInit /\ [][ItemNext]_vars

\* --------------------------------------------------- the reviews on their own
AddReview == \E u \in Users, r \in Users, t \in TransactionIds, n \in ReviewRatings,
                c \in ReviewComments : add_review(u, r, t, n, c)

ReviewNext == AddReview

ReviewSpec == ItemInit /\ [][ReviewNext]_vars

\* ------------------------------------------------------------ find_matches
TopN == 5
Threshold == 30

Min(S) == CHOOSE x \in S : \A y \in S : x <= y
Max(S) == CHOOSE x \in S : \A y \in S : x >= y

\* str.split(','): the pieces between the commas, empty pieces included
RECURSIVE Split(_)
Split(s) ==
    LET commas == {i \in 1..Len(s) : s[i] = ","} IN
    IF commas = {} THEN <<s>>
    ELSE <<SubSeq(s, 1, Min(commas) - 1)>> \o Split(SubSeq(s, Min(commas) + 1, Len(s)))

\* str.strip(): without the blanks at both ends
RECURSIVE Strip(_)
Strip(s) ==
    IF s # << >> /\ Head(s) = " " THEN Strip(Tail(s))
    ELSE IF s # << >> /\ s[Len(s)] = " " THEN Strip(SubSeq(s, 1, Len(s) - 1))
    ELSE s

\* str.lower() on the letters the inputs use
LowerChar(c) == CASE c = "A" -> "a" [] c = "B" -> "b" [] c = "C" -> "c" [] OTHER -> c
Lower(s) == [i \in 1..Len(s) |-> LowerChar(s[i])]

\* the truth value of a TEXT column: NULL and '' are false
Truthy(text) == text # None /\ text[1] # << >>

\* str(x).split(',')[0].strip().lower()
FirstToken(text) == Lower(Strip(Split(text[1])[1]))

\* set(tag.strip().lower() for tag in str(x).split(','))
TagSet(text) == {Lower(Strip(Split(text[1])[k])) : k \in 1..Len(Split(text[1]))}

CategoryScore(item, match_item) ==
    IF item.category = match_item.category THEN 40 ELSE 0

\* abs(item_price - match_price) / max(item_price, match_price) raises
\* ZeroDivisionError when both prices are 0
ZeroDivision(item, match_item) == Max({item.price, match_item.price}) = 0

\* price_diff <= 0.2 gives 30, price_diff <= 0.5 gives 15 (for a positive
\* maximum; on whole-number prices the float quotient compares as the fraction)
PriceScore_Half(item, match_item) ==
    LET diff == Max({item.price - match_item.price, match_item.price - item.price})
        top == Max({item.price, match_item.price})
    IN IF 2 * diff <= top THEN 30 ELSE 0

PriceScore(item, match_item) ==
    LET diff == Max({item.price - match_item.price, match_item.price - item.price})
        top == Max({item.price, match_item.price})
    IN IF 5 * diff <= top THEN 30 ELSE IF 2 * diff <= top THEN 15 ELSE 0

LocationScore(item, match_item) ==
    IF Truthy(item.location) /\ Truthy(match_item.location)
       /\ FirstToken(item.location) = FirstToken(match_item.location)
    THEN 20 ELSE 0

TagsScore(item, match_item) ==
    IF Truthy(item.tags) /\ Truthy(match_item.tags)
    THEN LET common == TagSet(item.tags) \cap TagSet(match_item.tags)
         IN IF common # {} THEN Min({Cardinality(common) * 5, 10}) ELSE 0
    ELSE 0

Score(item, match_item) ==
    CategoryScore(item, match_item) + PriceScore(item, match_item)
        + LocationScore(item, match_item) + TagsScore(item, match_item)

TransType_BarterFirst(item, match_item) ==
    IF item.available_for \in {"barter", "both"}
       /\ match_item.available_for \in {"barter", "both"} THEN "barter"
    ELSE "rental"

\* if both in ['rental', 'both']: 'rental'; elif both in ['barter', 'both']:
\* 'barter'; else 'rental'
TransType(item, match_item) ==
    IF item.available_for \in {"rental", "both"}
       /\ match_item.available_for \in {"rental", "both"} THEN "rental"
    ELSE IF item.available_for \in {"barter", "both"}
            /\ match_item.available_for \in {"barter", "both"} THEN "barter"
    ELSE "rental"

PoolIds_OwnerOnly(item_id, current_user_id) ==
    {i \in DOMAIN items : /\ items[i].user_id # items[item_id].user_id
                          /\ items[i].status = "available"}

\* WHERE i.user_id != ? AND i.status = "available" AND i.user_id != ?
\* (every item's user row exists, so the JOIN drops nothing)
PoolIds(item_id, current_user_id) ==
    {i \in DOMAIN items : /\ items[i].user_id # items[item_id].user_id
                          /\ items[i].status = "available"
                          /\ items[i].user_id # current_user_id}

\* ORDER BY i.created_at DESC: every order of the rows that is descending in
\* created_at; rows of the same second come in an order SQLite does not fix
RECURSIVE PoolOrders(_)
PoolOrders(ids) ==
    IF ids = {} THEN {<< >>}
    ELSE UNION {{<<i>> \o rest : rest \in PoolOrders(ids \ {i})} :
                   i \in {j \in ids : \A k \in ids : items[j].created_at >= items[k].created_at}}

\* the dict appended for a candidate (title, price, category, condition,
\* username and user_rating are copies of the row and left out)
MatchEntry(item, id, score) ==
    [id |-> id, match_score |-> Min({score, 100}),
     type |-> TransType(item, items[id]), available_for |-> items[id].available_for]

RECURSIVE Scored_All(_, _)
Scored_All(item, pool) ==
    IF pool = << >> THEN << >>
    ELSE <<MatchEntry(item, Head(pool), Score(item, items[Head(pool)]))>>
             \o Scored_All(item, Tail(pool))

\* the loop: the candidates of the pool, in its order, that score >= 30
RECURSIVE Scored(_, _)
Scored(item, pool) ==
    IF pool = << >> THEN << >>
    ELSE LET score == Score(item, items[Head(pool)]) IN
         IF score >= Threshold
         THEN <<MatchEntry(item, Head(pool), score)>> \o Scored(item, Tail(pool))
         ELSE Scored(item, Tail(pool))

RECURSIVE SortedByScore_LastFirst(_)
SortedByScore_LastFirst(ms) ==
    IF ms = << >> THEN << >>
    ELSE LET best == Max({ms[k].match_score : k \in 1..Len(ms)})
             last == Max({k \in 1..Len(ms) : ms[k].match_score = best})
         IN <<ms[last]>> \o SortedByScore_LastFirst(SubSeq(ms, 1, last - 1)
                                                        \o SubSeq(ms, last + 1, Len(ms)))

SortedByScore_Unsorted(ms) == ms

\* sorted(matches, key=match_score, reverse=True): stable, equal scores keep
\* their order
RECURSIVE SortedByScore(_)
SortedByScore(ms) ==
    IF ms = << >> THEN << >>
    ELSE LET best == Max({ms[k].match_score : k \in 1..Len(ms)})
             first == Min({k \in 1..Len(ms) : ms[k].match_score = best})
         IN <<ms[first]>> \o SortedByScore(SubSeq(ms, 1, first - 1)
                                               \o SubSeq(ms, first + 1, Len(ms)))

\* the list returned for the pool as the query delivered it; an exception in
\* the loop is caught and [] returned
find_matches_ret(item_id, current_user_id, pool) ==
    IF item_id \notin DOMAIN items THEN << >>
    ELSE IF \E k \in 1..Len(pool) : ZeroDivision(items[item_id], items[pool[k]]) THEN << >>
    ELSE LET sorted == SortedByScore(Scored(items[item_id], pool))
         IN SubSeq(sorted, 1, Min({TopN, Len(sorted)}))

find_matches(item_id, current_user_id) ==
    /\ \E pool \in (IF item_id \in DOMAIN items
                    THEN PoolOrders(PoolIds(item_id, current_user_id)) ELSE {<< >>}) :
          matches' = Some([item_id |-> item_id, current_user_id |-> current_user_id,
                           result |-> find_matches_ret(item_id, current_user_id, pool)])
    /\ UNCHANGED <<items, item_seq, transactions, now, reviewVars, gigVars>>

\* ----------------------------------------------- the matcher on a pair of listings
PriceInputs == {0, 40, 50, 55, 100}
LocationInputs == {Text(<<"A", "b">>), Text(<<" ", "a", "B", ",", " ", "x">>),
                   Text(<<"b">>), Text(<< >>), None}
TagsInputs == {Text(<<"a", ",", "b", ",", "c">>), Text(<<" ", "B", " ", ",", "A">>),
               Text(<<"c">>), Text(<< >>), None}

BaseListing == Listing("Tools", 50, Text(<<"A", "b">>), Text(<<"a", ",", "b", ",", "c">>), "both")
FarListing == Listing("tools", 0, None, None, "rental")

\* the base listing, its variants in one column, and one that shares nothing
ListingInputs ==
    {BaseListing, FarListing, [BaseListing EXCEPT !.category = "tools"]}
        \cup {[BaseListing EXCEPT !.price = p] : p \in PriceInputs}
        \cup {[BaseListing EXCEPT !.location = l] : l \in LocationInputs}
        \cup {[BaseListing EXCEPT !.tags = t] : t \in TagsInputs}
        \cup {[BaseListing EXCEPT !.available_for = a] : a \in {"rental", "barter"}}

ListPair == \E u \in Users, l \in ListingInputs :
                item_seq < PairSize /\ add_item(u, l, now + 1)
ScorePair == \E i \in 1..PairSize, u \in Users : find_matches(i, u)

ScoreNext == ListPair \/ ScorePair

ScoreSpec == ItemInit /\ [][ScoreNext]_vars

\* ------------------------------------- the matcher on a few listings of any owner
FreeListing == [BaseListing EXCEPT !.price = 0]
MatchInputs == {BaseListing, FreeListing}

ListItem == \E u \in Users, l \in MatchInputs, ts \in {now, now + 1} :
                item_seq < MaxListings /\ add_item(u, l, ts)
EditStatus == \E i \in 1..MaxListings, st \in {"available", "rented"} : update_item(i, st)
FindMatches == \E i \in 1..MaxListings, u \in Users : find_matches(i, u)

MatchNext == ListItem \/ EditStatus \/ FindMatches

MatchSpec == ItemInit /\ [][MatchNext]_vars

\* --------------------------------- the matcher on a pool larger than the result
\* user 1 lists the source, then user 2 lists candidates that score 100, 30 and
\* 25 against it
Scores30 == Listing("tools", 50, Text(<<"b">>), None, "both")
Scores25 == Listing("tools", 100, Text(<<"b">>), Text(<<"a", ",", "b">>), "both")
PoolInputs == {BaseListing, Scores30, Scores25}

ListSource == item_seq = 0 /\ add_item(1, BaseListing, now + 1)
ListCandidate == \E l \in PoolInputs :
                     item_seq >= 1 /\ item_seq < MaxPool /\ add_item(2, l, now + 1)
RankMatches == \E i \in 1..MaxPool, u \in Users : find_matches(i, u)

RankNext == ListSource \/ ListCandidate \/ RankMatches

RankSpec == ItemInit /\ [][RankNext]_vars

\* ==================================================================== claims
BidsOn(bs, g) == {i \in DOMAIN bs : bs[i].gig_id = g}
AcceptedOn(bs, g) == {i \in BidsOn(bs, g) : bs[i].status = "accepted"}
TasksOf(ts, b) == {t \in DOMAIN ts : ts[t].bid_id = b}
Stats(us, u) == <<us[u].completed_tasks, us[u].total_earnings>>

\* C1: after a successful accept_bid(B) on gig G, whatever came before, exactly
\* one bid on G is accepted, every other bid on G that was pending is rejected,
\* G is in_progress and exactly one task row references B.
C1_AcceptPostcondition ==
    [][\A b \in BidIds :
          (accept_bid(b) /\ accept_bid_ret(b, FALSE).ok) =>
              LET g == bids[b].gig_id IN
              /\ Cardinality(AcceptedOn(bids', g)) = 1
              /\ \A i \in BidsOn(bids, g) \ {b} :
                     bids[i].status = "pending" => bids'[i].status = "rejected"
              /\ gigs'[g].status = "in_progress"
              /\ Cardinality(TasksOf(tasks', b)) = 1]_vars

\* C2: in every reachable state of the gig store each gig has at most one bid
\* with status 'accepted'.
C2_AtMostOneAccepted ==
    \A g \in GigIds : Cardinality(AcceptedOn(bids, g)) <= 1

\* accept_bid ran twice on one gig: one bid is accepted, its sibling rejected
C2_Witness ==
    /\ Len(tasks) = 2
    /\ \E i, j \in DOMAIN bids :
          /\ bids[i].gig_id = bids[j].gig_id
          /\ bids[i].status = "accepted"
          /\ bids[j].status = "rejected"
          /\ tasks[1].bid_id = j
          /\ tasks[2].bid_id = i

\* C3: a second complete_task by the client on a task whose completion already
\* fired (its portfolio row exists) leaves the freelancer's completed_tasks and
\* total_earnings as they are: the statistics grow once per task, not twice.
C3_CompleteTwiceIdempotent ==
    [][\A t \in DOMAIN tasks, r \in RatingInputs, rv \in ReviewInputs :
          (/\ complete_task(t, tasks[t].client_id, r, rv)
           /\ complete_task_ret(t, tasks[t].client_id, r).ok
           /\ \E p \in DOMAIN portfolio : portfolio[p].task_id = t)
          => Stats(users', tasks[t].freelancer_id) = Stats(users, tasks[t].freelancer_id)]_vars

LegalTransitions ==
    {<<"pending", "accepted">>, <<"pending", "cancelled">>, <<"accepted", "completed">>}

\* C4: update_transaction_status asked for a change other than pending->accepted,
\* pending->cancelled or accepted->completed on an existing transaction returns
\* an error result and leaves the transaction row and the item row unchanged.
C4_OnlyLegalTransitions ==
    [][\A t \in DOMAIN transactions, s \in TransactionStatuses :
          (/\ update_transaction_status(t, s)
           /\ <<transactions[t].status, s>> \notin LegalTransitions)
          => /\ ~update_transaction_status_ret(t, s)
             /\ transactions' = transactions
             /\ items' = items]_vars

C6_TaskStatusForwardOnly ==
    [][\A t \in DOMAIN tasks :
          tasks'[t].status # tasks[t].status =>
              <<tasks[t].status, tasks'[t].status>> \in
                  {<<"in_progress", "pending_review">>, <<"pending_review", "completed">>}]_vars

\* C7: 'accepted' and 'rejected' are terminal: once a bid has left 'pending' no
\* later call changes its status.
C7_BidStatusTerminal ==
    [][\A b \in DOMAIN bids :
          bids[b].status # "pending" => bids'[b].status = bids[b].status]_vars

\* the bid exists and references an existing gig in status 'open'
AcceptValid(b) ==
    /\ b \in DOMAIN bids
    /\ bids[b].gig_id \in DOMAIN gigs
    /\ gigs[bids[b].gig_id].status = "open"

\* C8: accept_bid on a bid that does not exist, or whose gig does not exist or is
\* not 'open', returns failure, creates no task and changes no bid or gig.
C8_AcceptValidatesFirst ==
    [][\A b \in BidIds :
          (accept_bid(b) /\ ~AcceptValid(b)) =>
              /\ ~accept_bid_ret(b, FALSE).ok
              /\ tasks' = tasks
              /\ bids' = bids
              /\ gigs' = gigs]_vars

CompletionEffects(t, u, r, rv) ==
    LET task == tasks[t]
        f == task.freelancer_id
    IN /\ complete_task_ret(t, u, r).ok
       /\ users'[f].completed_tasks = users[f].completed_tasks + 1
       /\ users'[f].total_earnings = users[f].total_earnings + task.amount
       /\ Len(portfolio') = Len(portfolio) + 1
       /\ SubSeq(portfolio', 1, Len(portfolio)) = portfolio
       /\ portfolio'[Len(portfolio')].user_id = f
       /\ portfolio'[Len(portfolio')].task_id = t
       /\ portfolio'[Len(portfolio')].rating = r
       /\ portfolio'[Len(portfolio')].client_feedback = rv
       /\ gigs'[task.gig_id].status = "completed"

\* none of them: no statistic, no portfolio row and no gig changes
NoCompletionEffects ==
    /\ \A v \in Users : Stats(users', v) = Stats(users, v)
    /\ portfolio' = portfolio
    /\ gigs' = gigs

\* what the claim says of the call complete_task(t, u, r, rv)
CompletionAsClaimed(t, u, r, rv) ==
    LET task == tasks[t] IN
    /\ (/\ u = task.client_id
        /\ r # None /\ r[1] >= 1 /\ r[1] <= 5
        /\ task.status = "pending_review") => CompletionEffects(t, u, r, rv)
    /\ (u # task.client_id \/ task.status # "pending_review") => NoCompletionEffects

\* C10: complete_task by the client with a valid rating on a pending_review task
\* adds 1 to the freelancer's completed_tasks and the task amount to
\* total_earnings, appends one portfolio row for the task, owned by the
\* freelancer, with the client's rating and review, and sets the gig
\* 'completed', all in that step; a call by someone other than the client, or on
\* a task not in pending_review, has none of these effects.
\* (every step that changes a table and is the call complete_task(t, u, r, rv)
\* is as claimed; a call that changes nothing has none of the effects)
C10_ClientCompletionEffects ==
    [][vars' # vars =>
          \A t \in DOMAIN tasks, u \in Users, r \in RatingInputs, rv \in ReviewInputs :
              complete_task(t, u, r, rv) => CompletionAsClaimed(t, u, r, rv)]_vars

\* the client's rated completion has run: the newest portfolio row carries the
\* rating and the review, its owner's count is positive, the gig is completed
C10_Witness ==
    /\ portfolio # << >>
    /\ LET p == portfolio[Len(portfolio)] IN
          /\ p.rating = Some(4)
          /\ p.client_feedback = Some("good")
          /\ p.user_id = tasks[p.task_id].freelancer_id
          /\ p.user_id # tasks[p.task_id].client_id
          /\ users[p.user_id].completed_tasks = 1
          /\ users[p.user_id].total_earnings = tasks[p.task_id].amount
          /\ gigs[tasks[p.task_id].gig_id].status = "completed"

\* C11: on a client completion of a pending_review task the freelancer's new
\* rating is (old_rating * old_completed_tasks + r) / (old_completed_tasks + 1),
\* with the count as it was before this completion and r the supplied rating,
\* or 5 when the client completes without one.
C11_RunningAverage ==
    [][vars' # vars =>
          \A t \in DOMAIN tasks, r \in RatingInputs, rv \in ReviewInputs :
              (/\ tasks[t].status = "pending_review"
               /\ complete_task_ret(t, tasks[t].client_id, r).ok
               /\ complete_task(t, tasks[t].client_id, r, rv))
              => LET old == users[tasks[t].freelancer_id]
                     new == users'[tasks[t].freelancer_id].rating
                     given == IF r = None THEN 5 ELSE r[1]
                 IN new.num * (old.rating.den * (old.completed_tasks + 1))
                      = (old.rating.num * old.completed_tasks + given * old.rating.den)
                            * new.den]_vars

\* two completions were averaged: ratings 4 and 5 give 9/2
C11_Witness ==
    \E u \in Users : /\ users[u].completed_tasks = 2
                     /\ users[u].rating = [num |-> 9, den |-> 2]

\* a request complete_task must refuse, and the message it must give
BadRequest(t, u, r) ==
    IF t \notin DOMAIN tasks THEN "Task not found"
    ELSE IF u # tasks[t].client_id /\ u # tasks[t].freelancer_id THEN "Unauthorized access"
    ELSE IF u = tasks[t].client_id /\ r # None /\ r[1] \notin 1..5
    THEN "Rating must be between 1 and 5"
    ELSE ""

\* C12: complete_task on a task id that does not exist returns a not-found
\* failure, for a user who is neither client nor freelancer an unauthorized
\* failure, for a client rating outside 1..5 a validation failure, and in all
\* three cases changes no task, user, portfolio or gig row.
C12_FailsClosed ==
    /\ [](\A t \in TaskIds, u \in Users, r \in RatingInputs :
              BadRequest(t, u, r) # "" =>
                  complete_task_ret(t, u, r) = Result(FALSE, BadRequest(t, u, r)))
    /\ [][vars' # vars =>
              \A t \in TaskIds, u \in Users, r \in RatingInputs, rv \in ReviewInputs :
                  (BadRequest(t, u, r) # "" /\ complete_task(t, u, r, rv))
                  => (tasks' = tasks /\ users' = users /\ portfolio' = portfolio
                      /\ gigs' = gigs)]_vars

\* one task awaits review, its client and freelancer differ: a missing task id,
\* a third user and a client rating of 0 or 6 are all there to be refused
C12_Witness ==
    /\ Len(tasks) = 1
    /\ tasks[1].status = "pending_review"
    /\ tasks[1].client_id # tasks[1].freelancer_id
    /\ \E u \in Users : u \notin {tasks[1].client_id, tasks[1].freelancer_id}
    /\ portfolio = << >>

\* C13: the bids table holds at most one row per (gig_id, bidder_id); a second
\* place_bid by a bidder on a gig returns failure and inserts nothing, whatever
\* the status of the first bid.
C13_OneBidPerBidder ==
    /\ [](\A i, j \in DOMAIN bids :
              (bids[i].gig_id = bids[j].gig_id /\ bids[i].bidder_id = bids[j].bidder_id)
              => i = j)
    /\ [](\A i \in DOMAIN bids, a \in AllBidAmounts :
              ~place_bid_ret(bids[i].gig_id, bids[i].bidder_id, a).ok)
    /\ [][\A i \in DOMAIN bids, a \in AllBidAmounts :
              place_bid(bids[i].gig_id, bids[i].bidder_id, a) => bids' = bids]_vars

\* the only bid is accepted and the table has room for another row
C13_Witness ==
    /\ Len(bids) = 1
    /\ Len(bids) < MaxBids
    /\ bids[1].status = "accepted"

\* the amount is positive and, on a fixed-budget gig, at most 1.5 times the budget
AmountAllowed(g, a) ==
    /\ a > 0
    /\ (g \in DOMAIN gigs /\ gigs[g].budget_type = "fixed")
           => 2 * a <= 3 * gigs[g].budget_amount

\* C14: place_bid rejects an amount <= 0 and, on a fixed-budget gig, an amount
\* above 1.5 times the budget, creating no bid row; it accepts an amount of
\* exactly 1.5 times the budget and any positive amount on an hourly gig (from
\* a bidder who has no bid on the gig yet) and inserts the row.
C14_AmountValidation ==
    /\ [](\A g \in GigIds, u \in Users, a \in AllBidAmounts :
              place_bid_ret(g, u, a).ok
                  <=> (/\ AmountAllowed(g, a)
                       /\ \A i \in DOMAIN bids :
                              ~(bids[i].gig_id = g /\ bids[i].bidder_id = u)))
    /\ [][\A g \in GigIds, u \in Users, a \in AllBidAmounts :
              place_bid(g, u, a) =>
                  IF AmountAllowed(g, a)
                  THEN bids' = Append(bids, [gig_id |-> g, bidder_id |-> u,
                                             amount |-> a, status |-> "pending"])
                  ELSE bids' = bids]_vars

\* a fixed-budget gig of 2 carries a bid of exactly 3, an hourly gig a bid of 9
C14_Witness ==
    \E i \in DOMAIN bids :
        /\ bids[i].gig_id \in DOMAIN gigs
        /\ LET g == gigs[bids[i].gig_id] IN
              \/ g.budget_type = "fixed" /\ 2 * bids[i].amount = 3 * g.budget_amount
              \/ g.budget_type = "hourly" /\ 2 * bids[i].amount > 3 * g.budget_amount

\* the call recorded in matches, its source row and the list it returned
Called == matches # None /\ matches[1].item_id \in DOMAIN items
Source == items[matches[1].item_id]
Returned == matches[1].result
ReturnedIds == {Returned[k].id : k \in 1..Len(Returned)}

\* the listings of other owners than the source's and the requester's that are
\* available
Candidates ==
    {i \in DOMAIN items : /\ items[i].user_id # Source.user_id
                          /\ items[i].user_id # matches[1].current_user_id
                          /\ items[i].status = "available"}

\* C15: find_matches returns at most 5 entries, each with an integer
\* match_score in 0..100, in non-increasing order of match_score, entries of
\* equal score in the order of the pool, the more recently created first.
C15_AtMostFiveSortedStable ==
    Called =>
        /\ Len(Returned) <= 5
        /\ \A k \in 1..Len(Returned) : Returned[k].match_score \in 0..100
        /\ \A j, k \in 1..Len(Returned) :
               j < k => /\ Returned[j].match_score >= Returned[k].match_score
                        /\ Returned[j].id # Returned[k].id
                        /\ Returned[j].match_score = Returned[k].match_score
                               => items[Returned[j].id].created_at
                                      >= items[Returned[k].id].created_at

\* six candidates score 30 or more, five are returned, from 100 down to 30
C15_Witness ==
    /\ Called
    /\ Cardinality({i \in DOMAIN items : i # 1 /\ items[i].price = 50}) = 6
    /\ Len(Returned) = 5
    /\ Returned[1].match_score = 100
    /\ Returned[2].match_score = 100
    /\ Returned[5].match_score = 30

\* C16: the output of find_matches is strictly descending by score: no two
\* returned matches have the same match_score.
C16_StrictlyDescending ==
    Called => \A j, k \in 1..Len(Returned) :
                  j < k => Returned[j].match_score > Returned[k].match_score

\* C16 as amended: the output is in non-increasing order of match_score; two
\* returned matches may have the same score.
C16_NonIncreasing ==
    Called => \A j, k \in 1..Len(Returned) :
                  j < k => Returned[j].match_score >= Returned[k].match_score

\* two matches of the same score were returned
C16_Witness ==
    /\ Called
    /\ Len(Returned) = 2
    /\ Returned[1].match_score = Returned[2].match_score

\* C17: find_matches never returns a listing of the source item's owner, nor
\* one of the requesting user, nor one whose status is not 'available'.
C17_Exclusions ==
    Called => \A k \in 1..Len(Returned) :
                  /\ Returned[k].id \in DOMAIN items
                  /\ items[Returned[k].id].user_id # Source.user_id
                  /\ items[Returned[k].id].user_id # matches[1].current_user_id
                  /\ items[Returned[k].id].status = "available"

\* the requester is not the source's owner and has an available listing that
\* was left out, while a third user's listing was returned
C17_Witness ==
    /\ Called
    /\ matches[1].current_user_id # Source.user_id
    /\ \E i \in DOMAIN items : /\ items[i].user_id = matches[1].current_user_id
                               /\ items[i].status = "available"
                               /\ i \notin ReturnedIds
    /\ Returned # << >>

\* C18: no candidate scoring below 30 is returned and none takes a slot: the
\* output is the first 5, by score and then pool order, of the eligible
\* candidates scoring at least 30.
C18_ThresholdBeforeTopFive ==
    Called =>
        LET eligible == {i \in Candidates : Score(Source, items[i]) >= 30} IN
        /\ \A k \in 1..Len(Returned) : Returned[k].match_score >= 30
        /\ ReturnedIds \subseteq eligible
        /\ Cardinality(ReturnedIds) = Len(Returned)
        /\ Len(Returned) = Min({5, Cardinality(eligible)})
        /\ \A c \in eligible \ ReturnedIds, k \in 1..Len(Returned) :
               \/ Score(Source, items[c]) < Returned[k].match_score
               \/ /\ Score(Source, items[c]) = Returned[k].match_score
                  /\ items[c].created_at <= items[Returned[k].id].created_at

\* the newest candidate scores 25, five older ones score 30 or more: all five
\* are returned
C18_Witness ==
    /\ Called
    /\ item_seq = 7
    /\ items[7].price = 100
    /\ \A i \in 2..6 : items[i].price = 50
    /\ Len(Returned) = 5

\* the city and the tags each input stands for, written out; '' and NULL stand
\* for no city and no tags
RefCity(location) ==
    CASE location = Text(<<"A", "b">>) -> "ab"
      [] location = Text(<<" ", "a", "B", ",", " ", "x">>) -> "ab"
      [] location = Text(<<"b">>) -> "b"
      [] OTHER -> ""

RefTags(tags) ==
    CASE tags = Text(<<"a", ",", "b", ",", "c">>) -> {"a", "b", "c"}
      [] tags = Text(<<" ", "B", " ", ",", "A">>) -> {"a", "b"}
      [] tags = Text(<<"c">>) -> {"c"}
      [] OTHER -> {}

\* the reference sum of the four factors, the price factor on positive prices
RefScore(a, b, zero) ==
    LET diff == IF a.price >= b.price THEN a.price - b.price ELSE b.price - a.price
        top == IF a.price >= b.price THEN a.price ELSE b.price
    IN (IF a.category = b.category THEN 40 ELSE 0)
       + (IF top = 0 THEN zero
          ELSE IF 100 * diff <= 20 * top THEN 30
          ELSE IF 100 * diff <= 50 * top THEN 15 ELSE 0)
       + (IF RefCity(a.location) # "" /\ RefCity(a.location) = RefCity(b.location)
          THEN 20 ELSE 0)
       + Min({5 * Cardinality(RefTags(a.tags) \cap RefTags(b.tags)), 10})

\* C19: for every source/candidate pair with positive prices the match_score is
\* 40 for equal categories + 30 for a relative price difference <= 0.20, else 15
\* for <= 0.50 + 20 for equal first location tokens (trimmed, lower-cased) +
\* min(5 * shared tags, 10); a candidate whose sum is below 30 is not returned.
C19_ScoreIsReferenceSum ==
    Called =>
        \A c \in Candidates :
            (Source.price > 0 /\ items[c].price > 0) =>
                LET ref == RefScore(Source, items[c], 0) IN
                IF ref >= 30
                THEN \E k \in 1..Len(Returned) :
                         Returned[k].id = c /\ Returned[k].match_score = ref
                ELSE c \notin ReturnedIds

\* Tools at 50 against Tools at 55, same city, one shared tag: 95
C19_Witness ==
    /\ Called
    /\ Len(Returned) = 1
    /\ Returned[1].match_score = 95
    /\ Source.price = 50
    /\ items[Returned[1].id].price = 55
    /\ RefTags(Source.tags) = {"c"}

\* C20: when the source and a candidate both have price 0, the price factor of
\* that candidate is 0, it is still scored on the other factors, and the other
\* candidates are still scored and returned: the call does not come back empty
\* because of that pair.
C20_ZeroPriceGuard ==
    (Called /\ Source.price = 0) =>
        \A c \in Candidates :
            RefScore(Source, items[c], 0) >= 30 =>
                \E k \in 1..Len(Returned) :
                    /\ Returned[k].id = c
                    /\ Returned[k].match_score = RefScore(Source, items[c], 0)

\* the type each pair of availability modes (source, candidate) is to get
RefType ==
    [p \in {"rental", "barter", "both"} \X {"rental", "barter", "both"} |->
        CASE p = <<"rental", "rental">> -> "rental"
          [] p = <<"rental", "barter">> -> "rental"
          [] p = <<"rental", "both">> -> "rental"
          [] p = <<"barter", "rental">> -> "rental"
          [] p = <<"barter", "barter">> -> "barter"
          [] p = <<"barter", "both">> -> "barter"
          [] p = <<"both", "rental">> -> "rental"
          [] p = <<"both", "barter">> -> "barter"
          [] p = <<"both", "both">> -> "rental"]

\* C21: the type find_matches returns for a match is 'rental' if both listings
\* are available for rental (rental or both), otherwise 'barter' if both are
\* available for barter (barter or both), otherwise 'rental'; it is 'barter'
\* exactly when both admit barter and at least one does not admit rental.
C21_TypeInference ==
    Called =>
        \A k \in 1..Len(Returned) :
            LET a == Source.available_for
                b == items[Returned[k].id].available_for
            IN /\ Returned[k].type = RefType[<<a, b>>]
               /\ Returned[k].type = "barter"
                      <=> (/\ a \in {"barter", "both"} /\ b \in {"barter", "both"}
                           /\ (a \notin {"rental", "both"} \/ b \notin {"rental", "both"}))

\* a barter-only source against a candidate open to both was labelled barter
C21_Witness ==
    /\ Called
    /\ Source.available_for = "barter"
    /\ \E k \in 1..Len(Returned) :
          /\ items[Returned[k].id].available_for = "both"
          /\ Returned[k].type = "barter"

\* C22: in every reachable state of the item store every transaction's item_id,
\* and its matched_item_id when set, is the id of an item row that exists.
C22_NoDanglingReferences ==
    \A t \in DOMAIN transactions :
        /\ transactions[t].item_id \in DOMAIN items
        /\ transactions[t].matched_item_id # None
               => transactions[t].matched_item_id[1] \in DOMAIN items

\* the review rows about user u
ReviewsAbout(rs, u) == {i \in DOMAIN rs : rs[i].user_id = u}

RECURSIVE RatingTotal(_, _)
RatingTotal(rs, S) ==
    IF S = {} THEN 0
    ELSE LET i == CHOOSE j \in S : TRUE IN rs[i].rating + RatingTotal(rs, S \ {i})

\* C23: the reviews table holds at most one row per (user_id, reviewer_id,
\* transaction_id); add_review for a key that has a row replaces that row's
\* rating and comment and adds none; after every add_review the reviewed
\* user's total_ratings is the number of review rows about that user and
\* rating is their mean.
C23_ReviewUpsert ==
    /\ [](\A i, j \in DOMAIN reviews :
              (/\ reviews[i].user_id = reviews[j].user_id
               /\ reviews[i].reviewer_id = reviews[j].reviewer_id
               /\ reviews[i].transaction_id = reviews[j].transaction_id) => i = j)
    /\ [][vars' # vars =>
              \A u \in Users, r \in Users, t \in TransactionIds, n \in ReviewRatings,
                 c \in ReviewComments :
                  add_review(u, r, t, n, c) =>
                      LET about == ReviewsAbout(reviews', u) IN
                      /\ \A i \in DOMAIN reviews :
                             IF <<reviews[i].user_id, reviews[i].reviewer_id,
                                  reviews[i].transaction_id>> = <<u, r, t>>
                             THEN /\ Len(reviews') = Len(reviews)
                                  /\ reviews'[i] = [reviews[i] EXCEPT !.rating = n,
                                                                      !.comment = c]
                             ELSE reviews'[i] = reviews[i]
                      /\ item_users'[u].total_ratings = Cardinality(about)
                      /\ item_users'[u].rating.num * Cardinality(about)
                             = RatingTotal(reviews', about) * item_users'[u].rating.den]_vars

\* a user has two reviews, rated 2 and 5 by different reviewers: the mean is 7/2
C23_Witness ==
    \E u \in Users :
        /\ Cardinality(ReviewsAbout(reviews, u)) = 2
        /\ item_users[u] = [rating |-> [num |-> 7, den |-> 2], total_ratings |-> 2]
        /\ reviews[1].reviewer_id # reviews[2].reviewer_id

\* the place of a gig status in the lifecycle open -> in_progress -> completed
GigRank(status) ==
    CASE status = "open" -> 0 [] status = "in_progress" -> 1 [] status = "completed" -> 2

\* C24: under any sequence of create_gig, place_bid, accept_bid and
\* complete_task a gig's status only moves forward, open -> in_progress ->
\* completed: it never returns from completed to in_progress or from a later
\* status to open.
C24_GigStatusMonotonic ==
    [][\A g \in DOMAIN gigs :
          GigRank(gigs'[g].status) >= GigRank(gigs[g].status)]_vars

\* C25: every transaction is created in status 'pending', and
\* create_transaction with trans_type 'barter' and no matched_item_id fails and
\* inserts nothing: a barter transaction is only created with a second listing.
C25_BarterNeedsSecondListing ==
    [][\A i \in ItemIds, tm \in TransactionInputs :
          create_transaction(i, tm[1], tm[2]) =>
              /\ \A t \in DOMAIN transactions' \ DOMAIN transactions :
                     transactions'[t].status = "pending"
              /\ tm = <<"barter", None>> =>
                     /\ ~create_transaction_ret(i, tm[1], tm[2])
                     /\ transactions' = transactions]_vars

\* C26: at most one accept wins per gig: of two accept_bid calls on different
\* bids of one gig, in whatever order their transactions commit, the later one
\* fails and adds no task, so the gig never has more than one task row.
\* (a call is one step here: it reads no status and writes in one transaction,
\* so two concurrent calls leave what the two calls leave in commit order)
C26_OneAcceptWins ==
    [][\A b1, b2 \in DOMAIN bids :
          (/\ b1 # b2
           /\ bids[b1].gig_id = bids[b2].gig_id
           /\ TasksOf(tasks, b1) # {}
           /\ accept_bid(b2))
          => /\ ~accept_bid_ret(b2, FALSE).ok
             /\ tasks' = tasks]_vars

\* C27: after the client's complete_task with a rating in 1..5 on a task in
\* status pending_review the task's status is 'completed'.
C27_RatedCompletionCompletes ==
    [][\A t \in DOMAIN tasks, r \in RatingInputs, rv \in ReviewInputs :
          (/\ tasks[t].status = "pending_review"
           /\ r # None /\ r[1] \in 1..5
           /\ complete_task(t, tasks[t].client_id, r, rv))
          => tasks'[t].status = "completed"]_vars

\* the portfolio rows owned by user u, and the amounts of the tasks behind them
PortfolioOf(u) == {p \in DOMAIN portfolio : portfolio[p].user_id = u}

RECURSIVE AmountsBehind(_)
AmountsBehind(S) ==
    IF S = {} THEN 0
    ELSE LET p == CHOOSE q \in S : TRUE
         IN tasks[portfolio[p].task_id].amount + AmountsBehind(S \ {p})

\* C28: in every reachable state of the gig store each user's completed_tasks
\* is the number of portfolio rows the user owns and total_earnings is the sum
\* of the amounts of the tasks behind those rows.
C28_StatsMatchPortfolio ==
    \A u \in Users :
        /\ users[u].completed_tasks = Cardinality(PortfolioOf(u))
        /\ users[u].total_earnings = AmountsBehind(PortfolioOf(u))

\* a freelancer owns two portfolio rows and has earned the two task amounts
C28_Witness ==
    \E u \in Users :
        /\ Cardinality(PortfolioOf(u)) = 2
        /\ users[u].completed_tasks = 2
        /\ users[u].total_earnings > 0
        /\ users[u].total_earnings
               = tasks[portfolio[1].task_id].amount + tasks[portfolio[2].task_id].amount

\* the transactions on item i that are accepted
AcceptedFor(i) ==
    {t \in DOMAIN transactions : /\ transactions[t].item_id = i
                                 /\ transactions[t].status = "accepted"}

\* C29: in every reachable state at most one transaction per item_id has
\* status 'accepted'.
C29_OneAcceptedPerItem ==
    \A i \in ItemIds : Cardinality(AcceptedFor(i)) <= 1

\* C29 as amended: accepting a transaction commits nothing:
\* update_transaction_status(t, 'accepted') sets the status of transaction t
\* and leaves every item row, the item's status included, as it was; an item
\* may have several accepted transactions at a time.
C29_AcceptLeavesItem ==
    [][\A t \in DOMAIN transactions :
          update_transaction_status(t, "accepted") =>
              /\ items' = items
              /\ transactions' = [transactions EXCEPT ![t].status = "accepted"]]_vars

\* two transactions on one item are accepted and the item is still available
C29_Witness ==
    \E i \in DOMAIN items :
        /\ Cardinality(AcceptedFor(i)) = 2
        /\ items[i].status = "available"

\* C30: place_bid succeeds only for a gig that exists, is 'open' at the call
\* and belongs to another user than the bidder, so that no task has the same
\* user as client and as freelancer.
C30_BidOnlyOnBiddableGig ==
    /\ [][\A g \in GigIds, u \in Users, a \in BidAmounts :
              (place_bid_ret(g, u, a).ok /\ place_bid(g, u, a))
              => /\ g \in DOMAIN gigs
                 /\ gigs[g].status = "open"
                 /\ gigs[g].user_id # u]_vars
    /\ [](\A t \in DOMAIN tasks : tasks[t].client_id # tasks[t].freelancer_id)

====
